---- MODULE Spec2Model ----
(***************************************************************************)
(* Model of migrator.py: the retry_with_backoff wrapper, the per-repository *)
(* pipeline process_repository, and main with its ThreadPoolExecutor.       *)
(***************************************************************************)
EXTENDS Integers, Sequences, FiniteSets, TLC

VARIABLES
    \* main()
    token,      \* GITHUB_TOKEN is set
    args,       \* the parsed command line
    mainPc,     \* position of the controlling thread
    repos,      \* what search_repositories returned
    proceed,    \* the answer to "Do you want to continue?", or None
    futures,    \* one entry per executor.submit, in submission order
    results,    \* the results list of main
    report,     \* what generate_migration_report wrote, or None
    exitCode,   \* exit status of the process, or None while running
    \* retry_with_backoff's wrapper
    script,     \* what the wrapped function does on its 1st, 2nd, ... invocation
    rPc,        \* position of the wrapper
    attempt,    \* the loop variable of the wrapper
    invocations,\* number of invocations of the wrapped function
    sleeps,     \* the wait times passed to time.sleep, in order
    outcome,    \* what the wrapper returned or raised
    \* the workflow editor
    content,    \* the text of a workflow file, as a sequence of tokens
    history     \* the text before each application of CODEQL_UPDATES

mainVars == <<token, args, mainPc, repos, proceed, futures, results, report,
              exitCode>>
retryVars == <<script, rPc, attempt, invocations, sleeps, outcome>>
substVars == <<content, history>>
vars == <<token, args, mainPc, repos, proceed, futures, results, report, exitCode,
          script, rPc, attempt, invocations, sleeps, outcome, content, history>>

None == "None"

-----------------------------------------------------------------------------
(* Bounds *)

MaxRepos == 2
MaxWorkers == 2
MaxLen == 4
MaxPasses == 2

-----------------------------------------------------------------------------
(* retry_with_backoff *)

MAX_RETRIES == 5
RETRY_DELAY == 5

\* Return values of a wrapped function.
Values == {"value_a", "value_b"}

\* requests.exceptions.RequestException: a transient network failure.
\* GitHubAPIError: an API error such as permission denied.
\* Exception: any exception outside the wrapper's except clause.
Exceptions == {"RequestException", "GitHubAPIError", "Exception"}

\* except (requests.exceptions.RequestException, GitHubAPIError) as e
CaughtByWrapper(e) == e \in {"RequestException", "GitHubAPIError"}

\* Faulty variant: the wrapper gives up one attempt early.
LastAttempt_early(a) == a = MAX_RETRIES - 2

\* if attempt == MAX_RETRIES - 1: raise GitHubAPIError(...)
LastAttempt(a) == a = MAX_RETRIES - 1

\* Faulty variant: the delay grows linearly.
wait_time_linear(a) == RETRY_DELAY * (a + 1)

\* wait_time = RETRY_DELAY * (2 ** attempt)
wait_time(a) == RETRY_DELAY * (2 ^ a)

RetryIdle ==
    /\ script = <<>>
    /\ rPc = "idle"
    /\ attempt = 0
    /\ invocations = 0
    /\ sleeps = <<>>
    /\ outcome = [kind |-> None, value |-> None]

\* A call of a wrapped function: the loop is about to start, and the wrapped
\* function's behaviour on each invocation is an input.
RetryInit ==
    /\ script \in [1..MAX_RETRIES -> Values \cup Exceptions]
    /\ rPc = "call"
    /\ attempt = 0
    /\ invocations = 0
    /\ sleeps = <<>>
    /\ outcome = [kind |-> None, value |-> None]

\* try: return func(*args, **kwargs)
wrapper_return ==
    /\ rPc = "call"
    /\ script[attempt + 1] \in Values
    /\ invocations' = invocations + 1
    /\ outcome' = [kind |-> "returned", value |-> script[attempt + 1]]
    /\ rPc' = "done"
    /\ UNCHANGED <<script, attempt, sleeps>>
    /\ UNCHANGED <<mainVars, substVars>>

\* An exception the except clause does not name leaves the wrapper.
wrapper_propagate ==
    /\ rPc = "call"
    /\ script[attempt + 1] \in Exceptions
    /\ ~CaughtByWrapper(script[attempt + 1])
    /\ invocations' = invocations + 1
    /\ outcome' = [kind |-> "raised", value |-> script[attempt + 1]]
    /\ rPc' = "done"
    /\ UNCHANGED <<script, attempt, sleeps>>
    /\ UNCHANGED <<mainVars, substVars>>

\* The except clause on the last attempt.
wrapper_give_up ==
    /\ rPc = "call"
    /\ script[attempt + 1] \in Exceptions
    /\ CaughtByWrapper(script[attempt + 1])
    /\ LastAttempt(attempt)
    /\ invocations' = invocations + 1
    /\ outcome' = [kind |-> "raised", value |-> "GitHubAPIError"]
    /\ rPc' = "done"
    /\ UNCHANGED <<script, attempt, sleeps>>
    /\ UNCHANGED <<mainVars, substVars>>

\* The except clause on an earlier attempt: enter time.sleep(wait_time).
wrapper_catch ==
    /\ rPc = "call"
    /\ script[attempt + 1] \in Exceptions
    /\ CaughtByWrapper(script[attempt + 1])
    /\ ~LastAttempt(attempt)
    /\ invocations' = invocations + 1
    /\ sleeps' = Append(sleeps, wait_time(attempt))
    /\ rPc' = "sleep"
    /\ UNCHANGED <<script, attempt, outcome>>
    /\ UNCHANGED <<mainVars, substVars>>

\* time.sleep returns and the for loop takes its next value.
wrapper_wake ==
    /\ rPc = "sleep"
    /\ attempt' = attempt + 1
    /\ rPc' = "call"
    /\ UNCHANGED <<script, invocations, sleeps, outcome>>
    /\ UNCHANGED <<mainVars, substVars>>

RetryNext ==
    \/ wrapper_return
    \/ wrapper_propagate
    \/ wrapper_give_up
    \/ wrapper_catch
    \/ wrapper_wake

-----------------------------------------------------------------------------
(* process_repository *)

\* The repositories a search can find: two owners' repositories of one name.
Repositories ==
    << [owner |-> "octo", name |-> "app"],
       [owner |-> "acme", name |-> "app"] >>

\* search_repositories(per_page) returns a list of items, one per matching
\* file, so a repository can occur twice.  No pipeline depends on the position
\* of its item, so each multiset of items is drawn once, in the order above.
SearchOutcomes ==
    { [i \in DOMAIN ix |-> Repositories[ix[i]]] :
        ix \in { s \in UNION { [1..n -> DOMAIN Repositories] : n \in 0..MaxRepos } :
                   \A i, j \in DOMAIN s : i <= j => s[i] <= s[j] } }

\* clone_repo(repo_url, repo_name) returns or raises.
CloneOutcomes == {"ok", "raise"}

\* find_and_update_workflows(repo_name) returns True, False or raises.
UpdateOutcomes == {"True", "False", "raise"}

\* prompt_user(message) returns True or False.
PromptOutcomes == {"True", "False"}

\* create_pull_request(owner, name, branch, dry_run) returns the URL of the
\* pull request, None, or raises.
PrUrl(repo) == <<"pull", repo.owner, repo.name>>
PrOutcomes(repo) == {PrUrl(repo), <<None>>, <<"raise">>}

\* cleanup_resources(path) returns or raises CleanupError.
CleanupOutcomes == {"ok", "CleanupError"}

\* result = {...}
NewResult(repo) ==
    [ repository    |-> <<repo.owner, repo.name>>,
      success       |-> FALSE,
      actions_taken |-> <<>>,
      errors        |-> <<>>,
      pr_url        |-> <<None>> ]

\* Path(repo_name): the working copy of a pipeline.
WorkingCopy(repo) == repo.name

\* executor.submit(process_repository, repo, args)
NewFuture(repo) ==
    [ repo   |-> repo,
      pc     |-> "queued",
      result |-> NewResult(repo),
      calls  |-> <<>> ]

\* Positions of a worker inside process_repository.
ActivePcs == {"clone", "update", "prompt", "pr", "cleanup"}

Running == { i \in 1..Len(futures) : futures[i].pc \in ActivePcs }

Queued == { i \in 1..Len(futures) : futures[i].pc = "queued" }

\* result["actions_taken"].append(a)
TakeAction(f, a) ==
    [f EXCEPT !.result.actions_taken = Append(@, a)]

\* result["errors"].append(e)
RecordError(f, e) ==
    [f EXCEPT !.result.errors = Append(@, e)]

\* The call of an external function and what it returned or raised (a tuple).
Called(f, fn, out) ==
    [f EXCEPT !.calls = Append(@, <<fn, out>>)]

\* finally: if not args.skip_cleanup: ... ; return result
EnterFinally(f) ==
    IF args.skip_cleanup
        THEN [f EXCEPT !.pc = "finished"]
        ELSE [f EXCEPT !.pc = "cleanup"]

\* Faulty variant: cleanup in the try block only, so an exception skips it.
ExceptException_skips_cleanup(f) ==
    [RecordError(f, "Error processing") EXCEPT !.pc = "finished"]

\* except Exception as e: result["errors"].append(error_msg)
ExceptException(f) == EnterFinally(RecordError(f, "Error processing"))

\* Faulty variant: the prompt is asked whatever args.force says.
AfterUpdate_always_prompts(f) == [f EXCEPT !.pc = "prompt"]

\* if args.force or prompt_user(...)
AfterUpdate(f) ==
    IF args.force
        THEN [f EXCEPT !.pc = "pr"]
        ELSE [f EXCEPT !.pc = "prompt"]

\* Faulty variant: the dry-run branch does not return.
process_repository_start_no_return(i) ==
    /\ mainPc \in {"submit", "collect", "shutdown"}
    /\ i \in Queued
    /\ \A j \in Queued : i <= j
    /\ Cardinality(Running) < args.max_workers
    /\ futures' = [futures EXCEPT ![i] =
         IF args.dry_run
            THEN [TakeAction([@ EXCEPT !.result.success = TRUE], "dry_run")
                    EXCEPT !.pc = "clone"]
            ELSE [@ EXCEPT !.pc = "clone"]]
    /\ UNCHANGED <<token, args, mainPc, repos, proceed, results, report, exitCode>>
    /\ UNCHANGED <<retryVars, substVars>>

\* A worker thread takes the oldest work item off the queue and runs
\* process_repository up to the call of clone_repo.
process_repository_start(i) ==
    /\ mainPc \in {"submit", "collect", "shutdown"}
    /\ i \in Queued
    /\ \A j \in Queued : i <= j
    /\ Cardinality(Running) < args.max_workers
    /\ futures' = [futures EXCEPT ![i] =
         IF args.dry_run
            THEN [TakeAction([@ EXCEPT !.result.success = TRUE], "dry_run")
                    EXCEPT !.pc = "finished"]
            ELSE [@ EXCEPT !.pc = "clone"]]
    /\ UNCHANGED <<token, args, mainPc, repos, proceed, results, report, exitCode>>
    /\ UNCHANGED <<retryVars, substVars>>

\* clone_repo(repo_url, repo_name); result["actions_taken"].append("cloned")
process_repository_clone(i) ==
    /\ i \in 1..Len(futures)
    /\ futures[i].pc = "clone"
    /\ \E out \in CloneOutcomes :
         futures' = [futures EXCEPT ![i] =
           IF out = "ok"
              THEN [TakeAction(Called(@, "clone_repo", <<out>>), "cloned")
                      EXCEPT !.pc = "update"]
              ELSE ExceptException(Called(@, "clone_repo", <<out>>))]
    /\ UNCHANGED <<token, args, mainPc, repos, proceed, results, report, exitCode>>
    /\ UNCHANGED <<retryVars, substVars>>

\* Faulty variant: "no updates needed" falls through to the pull request.
RecordUpdate_falls_through(f, out) ==
    CASE out = "True"  -> AfterUpdate(TakeAction(f, "workflows_updated"))
      [] out = "False" -> AfterUpdate(TakeAction(f, "no_updates_needed"))
      [] OTHER         -> ExceptException(f)

\* if find_and_update_workflows(repo_name): ... else: ...
RecordUpdate(f, out) ==
    CASE out = "True"  -> AfterUpdate(TakeAction(f, "workflows_updated"))
      [] out = "False" -> EnterFinally(TakeAction(f, "no_updates_needed"))
      [] OTHER         -> ExceptException(f)

\* find_and_update_workflows(repo_name) returns or raises.
process_repository_update(i) ==
    /\ i \in 1..Len(futures)
    /\ futures[i].pc = "update"
    /\ \E out \in UpdateOutcomes :
         futures' = [futures EXCEPT ![i] =
           RecordUpdate(Called(@, "find_and_update_workflows", <<out>>), out)]
    /\ UNCHANGED <<token, args, mainPc, repos, proceed, results, report, exitCode>>
    /\ UNCHANGED <<retryVars, substVars>>

\* Faulty variant: a declined prompt returns at once, without the finally
\* clause.
process_repository_prompt_decline_returns(i) ==
    /\ i \in 1..Len(futures)
    /\ futures[i].pc = "prompt"
    /\ \E out \in PromptOutcomes :
         futures' = [futures EXCEPT ![i] =
           IF out = "True"
              THEN [Called(@, "prompt_user", <<out>>) EXCEPT !.pc = "pr"]
              ELSE [Called(@, "prompt_user", <<out>>) EXCEPT !.pc = "finished"]]
    /\ UNCHANGED <<token, args, mainPc, repos, proceed, results, report, exitCode>>
    /\ UNCHANGED <<retryVars, substVars>>

\* prompt_user(f"Create PR for {repo_name}?") answers.
process_repository_prompt(i) ==
    /\ i \in 1..Len(futures)
    /\ futures[i].pc = "prompt"
    /\ \E out \in PromptOutcomes :
         futures' = [futures EXCEPT ![i] =
           IF out = "True"
              THEN [Called(@, "prompt_user", <<out>>) EXCEPT !.pc = "pr"]
              ELSE EnterFinally(Called(@, "prompt_user", <<out>>))]
    /\ UNCHANGED <<token, args, mainPc, repos, proceed, results, report, exitCode>>
    /\ UNCHANGED <<retryVars, substVars>>

\* Faulty variant: the else branch of "if find_and_update_workflows" is
\* attached to "if pr_url".
RecordPr_dangling_else(f, out) ==
    CASE out = <<"raise">> -> ExceptException(f)
      [] out = <<None>>    -> EnterFinally(TakeAction(f, "no_updates_needed"))
      [] OTHER             ->
           EnterFinally(TakeAction(
               [f EXCEPT !.result.pr_url = out, !.result.success = TRUE],
               "pr_created"))

\* Faulty variant: the pull request is recorded but success is left False.
RecordPr_forgets_success(f, out) ==
    CASE out = <<"raise">> -> ExceptException(f)
      [] out = <<None>>    -> EnterFinally(RecordError(f, "Failed to create PR"))
      [] OTHER             ->
           EnterFinally(TakeAction(
               [f EXCEPT !.result.pr_url = out], "pr_created"))

\* if pr_url: ... else: result["errors"].append("Failed to create PR")
RecordPr(f, out) ==
    CASE out = <<"raise">> -> ExceptException(f)
      [] out = <<None>>    -> EnterFinally(RecordError(f, "Failed to create PR"))
      [] OTHER             ->
           EnterFinally(TakeAction(
               [f EXCEPT !.result.pr_url = out, !.result.success = TRUE],
               "pr_created"))

\* pr_url = create_pull_request(repo_owner, repo_name, args.branch_name, ...)
process_repository_pr(i) ==
    /\ i \in 1..Len(futures)
    /\ futures[i].pc = "pr"
    /\ \E out \in PrOutcomes(futures[i].repo) :
         futures' = [futures EXCEPT ![i] =
           RecordPr(Called(@, "create_pull_request", out), out)]
    /\ UNCHANGED <<token, args, mainPc, repos, proceed, results, report, exitCode>>
    /\ UNCHANGED <<retryVars, substVars>>

\* Faulty variant: a failed cleanup marks the repository as failed.
RecordCleanup_resets_success(f, out) ==
    IF out = "ok"
        THEN TakeAction(f, "cleanup_completed")
        ELSE [RecordError(f, "Cleanup error") EXCEPT !.result.success = FALSE]

\* try: cleanup_resources(Path(repo_name)) ... except CleanupError ...
RecordCleanup(f, out) ==
    IF out = "ok"
        THEN TakeAction(f, "cleanup_completed")
        ELSE RecordError(f, "Cleanup error")

\* Faulty variant: the worker appends its record to the shared list itself.
process_repository_cleanup_appends(i) ==
    /\ i \in 1..Len(futures)
    /\ futures[i].pc = "cleanup"
    /\ \E out \in CleanupOutcomes :
         /\ futures' = [futures EXCEPT ![i] =
              [RecordCleanup(Called(@, "cleanup_resources", <<out>>), out)
                 EXCEPT !.pc = "finished"]]
         /\ results' = Append(results, futures'[i].result)
    /\ UNCHANGED <<token, args, mainPc, repos, proceed, report, exitCode>>
    /\ UNCHANGED <<retryVars, substVars>>

\* The finally clause, then return result.
process_repository_cleanup(i) ==
    /\ i \in 1..Len(futures)
    /\ futures[i].pc = "cleanup"
    /\ \E out \in CleanupOutcomes :
         futures' = [futures EXCEPT ![i] =
           [RecordCleanup(Called(@, "cleanup_resources", <<out>>), out)
              EXCEPT !.pc = "finished"]]
    /\ UNCHANGED <<token, args, mainPc, repos, proceed, results, report, exitCode>>
    /\ UNCHANGED <<retryVars, substVars>>

-----------------------------------------------------------------------------
(* The workflow editor *)

\* The pieces a workflow file's text is made of: the action's name as it
\* appears in a step, the sub-actions, version tags, and any other text.
Action == "uses: github/codeql-action"

Tokens ==
    {Action, "/init", "/analyze", "/autobuild", "/upload-sarif",
     "@v2", "@v3", "@v4", "other"}

\* Faulty variant: the second entry's new reference is another entry's old
\* reference.
CODEQL_UPDATES_typo ==
    << << <<Action, "/init", "@v2">>,         <<Action, "/init", "@v3">> >>,
       << <<Action, "/analyze", "@v2">>,      <<Action, "/init", "@v2">> >>,
       << <<Action, "/autobuild", "@v2">>,    <<Action, "/autobuild", "@v3">> >>,
       << <<Action, "/upload-sarif", "@v2">>, <<Action, "/upload-sarif", "@v3">> >>,
       << <<Action, "@v2">>,                  <<Action, "@v3">> >> >>

\* CODEQL_UPDATES, in the order of the dict: <<old, new>>.
CODEQL_UPDATES ==
    << << <<Action, "/init", "@v2">>,         <<Action, "/init", "@v3">> >>,
       << <<Action, "/analyze", "@v2">>,      <<Action, "/analyze", "@v3">> >>,
       << <<Action, "/autobuild", "@v2">>,    <<Action, "/autobuild", "@v3">> >>,
       << <<Action, "/upload-sarif", "@v2">>, <<Action, "/upload-sarif", "@v3">> >>,
       << <<Action, "@v2">>,                  <<Action, "@v3">> >> >>

\* str.replace(old, new): every occurrence of old, left to right, without
\* overlap.
RECURSIVE Replace(_, _, _)
Replace(text, old, new) ==
    IF Len(text) < Len(old) THEN text
    ELSE IF SubSeq(text, 1, Len(old)) = old
         THEN new \o Replace(SubSeq(text, Len(old) + 1, Len(text)), old, new)
         ELSE <<Head(text)>> \o Replace(Tail(text), old, new)

\* for old, new in CODEQL_UPDATES.items(): content = content.replace(old, new)
RECURSIVE ApplyFrom(_, _)
ApplyFrom(text, n) ==
    IF n > Len(CODEQL_UPDATES) THEN text
    ELSE ApplyFrom(Replace(text, CODEQL_UPDATES[n][1], CODEQL_UPDATES[n][2]),
                   n + 1)

ApplyUpdates(text) == ApplyFrom(text, 1)

SubstIdle ==
    /\ content = <<>>
    /\ history = <<>>

\* The text of a workflow file is an input.
SubstInit ==
    /\ content \in UNION { [1..n -> Tokens] : n \in 0..MaxLen }
    /\ history = <<>>

\* The table is applied to the text of the file.
update_workflow_file ==
    /\ Len(history) < MaxPasses
    /\ history' = Append(history, content)
    /\ content' = ApplyUpdates(content)
    /\ UNCHANGED <<mainVars, retryVars>>

SubstNext == update_workflow_file

-----------------------------------------------------------------------------
(* main *)

\* parse_arguments(): the flags the pipeline reads.  args.report is read in
\* one place, after the pool has shut down, and its value is drawn there.
Arguments ==
    [ dry_run      : BOOLEAN,
      force        : BOOLEAN,
      skip_cleanup : BOOLEAN,
      max_workers  : {1, MaxWorkers} ]

MainInit ==
    /\ token \in BOOLEAN
    /\ args \in Arguments
    /\ mainPc = "import"
    /\ repos = <<>>
    /\ proceed = None
    /\ futures = <<>>
    /\ results = <<>>
    /\ report = <<>>
    /\ exitCode = <<>>

MainIdle ==
    /\ token = TRUE
    /\ args = [dry_run |-> FALSE, force |-> FALSE, skip_cleanup |-> FALSE,
               max_workers |-> 1]
    /\ mainPc = "idle"
    /\ repos = <<>>
    /\ proceed = None
    /\ futures = <<>>
    /\ results = <<>>
    /\ report = <<>>
    /\ exitCode = <<>>

\* sum(1 for r in results if r.get("success"))
RECURSIVE CountSuccess(_)
CountSuccess(rs) ==
    IF rs = <<>> THEN 0
    ELSE (IF Head(rs).success THEN 1 ELSE 0) + CountSuccess(Tail(rs))

generate_migration_report(rs) ==
    [ total_repositories    |-> Len(rs),
      successful_migrations |-> CountSuccess(rs),
      failed_migrations     |-> Len(rs) - CountSuccess(rs),
      details               |-> rs ]

\* if not GITHUB_TOKEN: raise ValueError(...)
load_module ==
    /\ mainPc = "import"
    /\ IF token
          THEN mainPc' = "search" /\ UNCHANGED exitCode
          ELSE mainPc' = "exited" /\ exitCode' = <<1>>
    /\ UNCHANGED <<token, args, repos, proceed, futures, results, report>>
    /\ UNCHANGED <<retryVars, substVars>>

\* if not args.force and not prompt_user("Do you want to continue?")
AfterSearch == IF args.force THEN "submit" ELSE "prompt"

\* repos = search_repositories(args.per_page); if not repos: return
main_search ==
    /\ mainPc = "search"
    /\ \E found \in SearchOutcomes :
         /\ repos' = found
         /\ IF found = <<>>
               THEN mainPc' = "exited" /\ exitCode' = <<0>>
               ELSE mainPc' = AfterSearch /\ UNCHANGED exitCode
    /\ UNCHANGED <<token, args, proceed, futures, results, report>>
    /\ UNCHANGED <<retryVars, substVars>>

\* search_repositories raises: except Exception ... sys.exit(1)
main_fatal ==
    /\ mainPc = "search"
    /\ mainPc' = "exited"
    /\ exitCode' = <<1>>
    /\ UNCHANGED <<token, args, repos, proceed, futures, results, report>>
    /\ UNCHANGED <<retryVars, substVars>>

\* Faulty variant: the answer to the global prompt is ignored.
AfterPrompt_ignored(answer) == "submit"

\* if ... not prompt_user("Do you want to continue?"): ... return
AfterPrompt(answer) == IF answer = "True" THEN "submit" ELSE "exited"

\* prompt_user("Do you want to continue?") answers.
main_prompt ==
    /\ mainPc = "prompt"
    /\ \E answer \in PromptOutcomes :
         /\ proceed' = answer
         /\ mainPc' = AfterPrompt(answer)
         /\ exitCode' = IF AfterPrompt(answer) = "exited" THEN <<0>> ELSE exitCode
    /\ UNCHANGED <<token, args, repos, futures, results, report>>
    /\ UNCHANGED <<retryVars, substVars>>

\* for repo in repos: future = executor.submit(process_repository, repo, args)
main_submit ==
    /\ mainPc = "submit"
    /\ Len(futures) < Len(repos)
    /\ futures' = Append(futures, NewFuture(repos[Len(futures) + 1]))
    /\ mainPc' = IF Len(futures') = Len(repos) THEN "collect" ELSE "submit"
    /\ UNCHANGED <<token, args, repos, proceed, results, report, exitCode>>
    /\ UNCHANGED <<retryVars, substVars>>

\* Faulty variant: only successful outcomes are appended.
main_collect_successes_only(i) ==
    /\ mainPc = "collect"
    /\ i \in 1..Len(futures)
    /\ futures[i].pc = "finished"
    /\ results' = IF futures[i].result.success
                     THEN Append(results, futures[i].result)
                     ELSE results
    /\ futures' = [futures EXCEPT ![i].pc = "yielded"]
    /\ UNCHANGED <<token, args, mainPc, repos, proceed, report, exitCode>>
    /\ UNCHANGED <<retryVars, substVars>>

\* for future in as_completed(futures): results.append(future.result())
main_collect(i) ==
    /\ mainPc = "collect"
    /\ i \in 1..Len(futures)
    /\ futures[i].pc = "finished"
    /\ results' = Append(results, futures[i].result)
    /\ futures' = [futures EXCEPT ![i].pc = "yielded"]
    /\ UNCHANGED <<token, args, mainPc, repos, proceed, report, exitCode>>
    /\ UNCHANGED <<retryVars, substVars>>

\* Faulty variant: a failed repository makes the run exit non-zero.
main_finish_fails_on_failure ==
    /\ mainPc = "collect"
    /\ \A i \in 1..Len(futures) : futures[i].pc = "yielded"
    /\ \E args_report \in BOOLEAN :
         report' = IF args_report
                      THEN <<generate_migration_report(results)>>
                      ELSE report
    /\ mainPc' = "exited"
    /\ exitCode' = IF CountSuccess(results) = Len(results) THEN <<0>> ELSE <<1>>
    /\ UNCHANGED <<token, args, repos, proceed, futures, results>>
    /\ UNCHANGED <<retryVars, substVars>>

\* The loop over as_completed ends; the report and the summary; return.
main_finish ==
    /\ mainPc = "collect"
    /\ \A i \in 1..Len(futures) : futures[i].pc = "yielded"
    /\ \E args_report \in BOOLEAN :
         report' = IF args_report
                      THEN <<generate_migration_report(results)>>
                      ELSE report
    /\ mainPc' = "exited"
    /\ exitCode' = <<0>>
    /\ UNCHANGED <<token, args, repos, proceed, futures, results>>
    /\ UNCHANGED <<retryVars, substVars>>

\* KeyboardInterrupt in the controlling thread.  Inside the with block the
\* executor's __exit__ runs shutdown(wait=True) before the except clause.
main_interrupt ==
    /\ mainPc \in {"search", "prompt", "submit", "collect"}
    /\ IF mainPc \in {"submit", "collect"}
          THEN mainPc' = "shutdown" /\ UNCHANGED exitCode
          ELSE mainPc' = "exited" /\ exitCode' = <<1>>
    /\ UNCHANGED <<token, args, repos, proceed, futures, results, report>>
    /\ UNCHANGED <<retryVars, substVars>>

\* shutdown(wait=True) returns; except KeyboardInterrupt: sys.exit(1)
main_interrupted_exit ==
    /\ mainPc = "shutdown"
    /\ Queued = {}
    /\ Running = {}
    /\ mainPc' = "exited"
    /\ exitCode' = <<1>>
    /\ UNCHANGED <<token, args, repos, proceed, futures, results, report>>
    /\ UNCHANGED <<retryVars, substVars>>

Init == MainInit /\ RetryIdle /\ SubstIdle

Next ==
    \/ load_module
    \/ main_search
    \/ main_fatal
    \/ main_prompt
    \/ main_submit
    \/ \E i \in 1..Len(futures) : main_collect(i)
    \/ main_finish
    \/ main_interrupt
    \/ main_interrupted_exit
    \/ \E i \in 1..Len(futures) : process_repository_start(i)
    \/ \E i \in 1..Len(futures) : process_repository_clone(i)
    \/ \E i \in 1..Len(futures) : process_repository_update(i)
    \/ \E i \in 1..Len(futures) : process_repository_prompt(i)
    \/ \E i \in 1..Len(futures) : process_repository_pr(i)
    \/ \E i \in 1..Len(futures) : process_repository_cleanup(i)

Spec == Init /\ [][Next]_vars

\* A call of a wrapped function on its own.
RetryStart == MainIdle /\ RetryInit /\ SubstIdle

RetrySpec == RetryStart /\ [][RetryNext]_vars

RetryFairSpec == RetrySpec /\ WF_vars(RetryNext)

\* A workflow file's text on its own.
SubstStart == MainIdle /\ RetryIdle /\ SubstInit

SubstSpec == SubstStart /\ [][SubstNext]_vars

-----------------------------------------------------------------------------
(* Properties of retry_with_backoff *)

\* The wrapped function fails transiently on its first k invocations and
\* returns a value on the next.
FailsThenSucceeds(k) ==
    /\ \A n \in 1..k : script[n] = "RequestException"
    /\ script[k + 1] \in Values

\* C1: a wrapped call that fails transiently k times in a row and then
\* succeeds, with 0 <= k < MAX_RETRIES, eventually returns the successful
\* call's result, and the wrapped function is invoked exactly k + 1 times.
C1_TransientFailuresThenSuccess ==
    \A k \in 0..(MAX_RETRIES - 1) :
        /\ [](FailsThenSucceeds(k) => invocations <= k + 1)
        /\ FailsThenSucceeds(k) ~>
              /\ rPc = "done"
              /\ outcome = [kind |-> "returned", value |-> script[k + 1]]
              /\ invocations = k + 1

\* Four transient failures, then the fifth invocation's value is returned.
C1_Witness ==
    /\ FailsThenSucceeds(MAX_RETRIES - 1)
    /\ rPc = "done"
    /\ outcome.kind = "returned"
    /\ invocations = MAX_RETRIES

\* C2: a non-transient API failure (GitHubAPIError) raised by the wrapped
\* function is attempted exactly once: one invocation, no backoff sleep, and
\* the failure leaves the wrapper at once.
C2_NonTransientFailureNotRetried ==
    (rPc # "idle" /\ script[1] = "GitHubAPIError") =>
        /\ invocations <= 1
        /\ sleeps = <<>>
        /\ invocations = 1 => (rPc = "done" /\ outcome.kind = "raised")

-----------------------------------------------------------------------------
(* Properties of process_repository and main *)

Returned(f) == f.pc \in {"finished", "yielded"}

\* The calls of fn in a pipeline's log.
CallsOf(f, fn) == { n \in DOMAIN f.calls : f.calls[n][1] = fn }

HasCall(f, fn, out) == \E n \in DOMAIN f.calls : f.calls[n] = <<fn, out>>

Occurrences(seq, x) == Cardinality({ n \in DOMAIN seq : seq[n] = x })

\* C3: when main completes, results holds exactly one outcome record per
\* submitted repository, whatever the worker bound, the stage results and
\* the order of completion.
C3_OneOutcomePerRepository ==
    (mainPc = "exited" /\ exitCode = <<0>> /\ futures # <<>>) =>
        /\ Len(futures) = Len(repos)
        /\ Len(results) = Len(repos)
        /\ \A i \in DOMAIN futures :
              Occurrences(results, futures[i].result) =
                 Cardinality({ j \in DOMAIN futures :
                                 futures[j].result = futures[i].result })

\* Two repositories on two workers, collected against submission order.
C3_Witness ==
    /\ mainPc = "exited"
    /\ exitCode = <<0>>
    /\ args.max_workers = MaxWorkers
    /\ Len(results) = MaxRepos
    /\ results[1] = futures[2].result
    /\ results[1] # futures[1].result

\* C4: without dry-run and with skip_cleanup off, cleanup is attempted exactly
\* once, after the last stage and before the outcome is returned, wherever
\* the pipeline ended; with skip_cleanup on it is never attempted.
C4_CleanupAttemptedOnce ==
    \A i \in DOMAIN futures :
        LET f == futures[i]
            cleanups == CallsOf(f, "cleanup_resources")
        IN  /\ Cardinality(cleanups) <= 1
            /\ \A n \in cleanups : n = Len(f.calls) /\ Returned(f)
            /\ (Returned(f) /\ ~args.dry_run /\ ~args.skip_cleanup)
                  => Cardinality(cleanups) = 1
            /\ args.skip_cleanup => cleanups = {}

\* A pipeline whose pull request call raised has cleaned up and returned.
C4_Witness ==
    \E i \in DOMAIN futures :
        /\ Returned(futures[i])
        /\ HasCall(futures[i], "create_pull_request", <<"raise">>)
        /\ CallsOf(futures[i], "cleanup_resources") = {Len(futures[i].calls)}

\* C5: no two concurrently active pipelines clone into, edit or delete the
\* same working-copy directory.
C5_WorkingCopyExclusive ==
    \A i, j \in DOMAIN futures :
        (/\ i # j
         /\ futures[i].pc \in {"clone", "update", "cleanup"}
         /\ futures[j].pc \in {"clone", "update", "cleanup"})
            => WorkingCopy(futures[i].repo) # WorkingCopy(futures[j].repo)

IsPipelinePath(a) ==
    /\ \A n \in DOMAIN a :
          a[n] \in {"dry_run", "cloned", "workflows_updated",
                    "no_updates_needed", "pr_created", "cleanup_completed"}
    /\ \A m, n \in DOMAIN a : a[m] = a[n] => m = n
    /\ (\E n \in DOMAIN a : a[n] = "dry_run") => a = <<"dry_run">>
    /\ (\E n \in DOMAIN a : a[n] = "cloned") => a[1] = "cloned"
    /\ ~ /\ \E n \in DOMAIN a : a[n] = "workflows_updated"
         /\ \E n \in DOMAIN a : a[n] = "no_updates_needed"
    /\ \A n \in DOMAIN a :
          a[n] \in {"workflows_updated", "no_updates_needed"}
             => n = 2 /\ a[1] = "cloned"
    /\ \A n \in DOMAIN a :
          a[n] = "pr_created" => n > 1 /\ a[n - 1] = "workflows_updated"
    /\ \A n \in DOMAIN a : a[n] = "cleanup_completed" => n = Len(a)

\* C6: in every state the actions_taken list of every outcome is a path of
\* the per-repository state machine.
C6_ActionsTakenIsPath ==
    /\ \A i \in DOMAIN futures : IsPipelinePath(futures[i].result.actions_taken)
    /\ \A n \in DOMAIN results : IsPipelinePath(results[n].actions_taken)

\* The longest path.
C6_Witness ==
    \E n \in DOMAIN results :
        results[n].actions_taken =
           <<"cloned", "workflows_updated", "pr_created", "cleanup_completed">>

\* C7: in dry-run mode a pipeline calls nothing that writes to the file
\* system or to the remote, and returns "dry_run" as its only action.
C7_DryRunHasNoEffect ==
    args.dry_run =>
        \A i \in DOMAIN futures :
            /\ futures[i].calls = <<>>
            /\ futures[i].pc \in {"queued", "finished", "yielded"}
            /\ Returned(futures[i]) =>
                  /\ futures[i].result.actions_taken = <<"dry_run">>
                  /\ futures[i].result.success
                  /\ futures[i].result.pr_url = <<None>>

C7_Witness ==
    /\ args.dry_run
    /\ Len(results) = MaxRepos
    /\ \A n \in DOMAIN results : results[n].actions_taken = <<"dry_run">>

\* C8: with force on and dry-run off, a pipeline whose clone succeeded, whose
\* workflows were updated and whose pull request call returned a URL records
\* cloned, workflows_updated, pr_created in that order, is never prompted,
\* and returns success with that URL.
C8_ForcedPipelineCreatesPr ==
    (args.force /\ ~args.dry_run) =>
        /\ mainPc # "prompt"
        /\ proceed = None
        /\ \A i \in DOMAIN futures :
              LET f == futures[i]
              IN  /\ CallsOf(f, "prompt_user") = {}
                  /\ f.pc # "prompt"
                  /\ (/\ HasCall(f, "clone_repo", <<"ok">>)
                      /\ HasCall(f, "find_and_update_workflows", <<"True">>)
                      /\ HasCall(f, "create_pull_request", PrUrl(f.repo)))
                        => /\ Len(f.result.actions_taken) >= 3
                           /\ SubSeq(f.result.actions_taken, 1, 3) =
                                <<"cloned", "workflows_updated", "pr_created">>
                           /\ f.result.success
                           /\ f.result.pr_url = PrUrl(f.repo)

C8_Witness ==
    /\ args.force
    /\ ~args.dry_run
    /\ \E i \in DOMAIN futures :
          /\ Returned(futures[i])
          /\ HasCall(futures[i], "create_pull_request", PrUrl(futures[i].repo))
          /\ futures[i].result.success

\* C9: a pipeline whose workflow update reports no change records cloned
\* then no_updates_needed, and makes no prompt and no pull request call.
C9_NoUpdateNoPr ==
    \A i \in DOMAIN futures :
        LET f == futures[i]
        IN  HasCall(f, "find_and_update_workflows", <<"False">>) =>
               /\ Len(f.result.actions_taken) >= 2
               /\ SubSeq(f.result.actions_taken, 1, 2) =
                     <<"cloned", "no_updates_needed">>
               /\ f.pc \notin {"prompt", "pr"}
               /\ CallsOf(f, "prompt_user") = {}
               /\ CallsOf(f, "create_pull_request") = {}
               /\ f.result.pr_url = <<None>>

C9_Witness ==
    \E i \in DOMAIN futures :
        /\ Returned(futures[i])
        /\ ~args.force
        /\ HasCall(futures[i], "find_and_update_workflows", <<"False">>)

\* C10: when force is off and the operator declines the global prompt, no
\* repository is submitted, so no pipeline runs, and no outcome record and no
\* report is produced.
C10_DeclinedGlobalPromptAborts ==
    /\ proceed # None => ~args.force
    /\ proceed = "False" =>
          /\ mainPc = "exited"
          /\ futures = <<>>
          /\ results = <<>>
          /\ report = <<>>

C10_Witness ==
    /\ proceed = "False"
    /\ Len(repos) = MaxRepos
    /\ mainPc = "exited"

\* The operator declined "Create PR for ...?" in this pipeline.
Declined(f) == HasCall(f, "prompt_user", <<"False">>)

\* C11: when the operator declines the prompt of one repository, no pull
\* request is created for it, its cleanup still runs and its outcome is still
\* returned and collected; the step changes no other pipeline and not the
\* controlling thread, so every other repository is processed as before.
C11_DeclinedPrPromptIsLocal ==
    /\ [](\A i \in DOMAIN futures :
            LET f == futures[i]
            IN  Declined(f) =>
                  /\ ~args.force
                  /\ f.pc \in {"cleanup", "finished", "yielded"}
                  /\ CallsOf(f, "create_pull_request") = {}
                  /\ f.result.pr_url = <<None>>
                  /\ ~f.result.success
                  /\ (Returned(f) /\ ~args.skip_cleanup)
                        => Cardinality(CallsOf(f, "cleanup_resources")) = 1
                  /\ (mainPc = "exited" /\ exitCode = <<0>>)
                        => \E n \in DOMAIN results : results[n] = f.result)
    /\ [][\A i \in DOMAIN futures :
            (~Declined(futures[i]) /\ Declined(futures'[i])) =>
               /\ \A j \in DOMAIN futures : j # i => futures'[j] = futures[j]
               /\ UNCHANGED <<mainPc, results, report, exitCode>>]_vars

\* One repository's prompt was declined and it has cleaned up; the other
\* repository got its pull request; both outcomes were collected.
C11_Witness ==
    /\ mainPc = "exited"
    /\ exitCode = <<0>>
    /\ \E i, j \in DOMAIN futures :
          /\ i # j
          /\ Declined(futures[i])
          /\ CallsOf(futures[i], "cleanup_resources") # {}
          /\ futures[j].result.pr_url = PrUrl(futures[j].repo)
          /\ \E n \in DOMAIN results : results[n] = futures[i].result
          /\ \E n \in DOMAIN results : results[n] = futures[j].result

CloneFailed(f) == HasCall(f, "clone_repo", <<"raise">>)

\* The pipeline has cloned its repository and not yet left the finally clause.
HoldsWorkingCopy(f) ==
    /\ HasCall(f, "clone_repo", <<"ok">>)
    /\ f.pc \in {"update", "prompt", "pr", "cleanup"}

\* cleanup_resources(Path(repo_name)) removed the directory in this step.
RemovesWorkingCopy(f, g) ==
    /\ ~HasCall(f, "cleanup_resources", <<"ok">>)
    /\ HasCall(g, "cleanup_resources", <<"ok">>)

\* C12: when the clone of a repository fails, its pipeline stops (no workflow
\* update, no prompt, no pull request call; the error is recorded, success is
\* false), and the other repositories are unaffected: no step of the failing
\* pipeline changes another pipeline or removes its working copy.
C12_CloneFailureIsIsolated ==
    /\ [](\A i \in DOMAIN futures :
            LET f == futures[i]
            IN  CloneFailed(f) =>
                  /\ f.pc \in {"cleanup", "finished", "yielded"}
                  /\ CallsOf(f, "find_and_update_workflows") = {}
                  /\ CallsOf(f, "prompt_user") = {}
                  /\ CallsOf(f, "create_pull_request") = {}
                  /\ Len(f.result.errors) >= 1
                  /\ f.result.errors[1] = "Error processing"
                  /\ ~f.result.success)
    /\ [][\A i \in DOMAIN futures :
            (CloneFailed(futures'[i]) /\ futures'[i] # futures[i]) =>
               \A j \in DOMAIN futures :
                  j # i =>
                    /\ futures'[j] = futures[j]
                    /\ (/\ RemovesWorkingCopy(futures[i], futures'[i])
                        /\ HoldsWorkingCopy(futures[j]))
                          => WorkingCopy(futures[j].repo) #
                                WorkingCopy(futures[i].repo)]_vars

\* The finally clause of pipeline i runs in this step.
CleanupStep(i) ==
    /\ i \in DOMAIN futures
    /\ futures[i].pc = "cleanup"
    /\ futures'[i].pc = "finished"

\* C13: a failure to remove the working copy is recorded in errors and leaves
\* success and pr_url as the pipeline determined them, the same as when the
\* cleanup succeeds, and the outcome record is still returned.
C13_CleanupFailureKeepsSuccess ==
    /\ [][\A i \in DOMAIN futures :
            CleanupStep(i) =>
               LET f == futures[i]
                   g == futures'[i]
               IN  /\ g.result.success = f.result.success
                   /\ g.result.pr_url = f.result.pr_url
                   /\ g.result.repository = f.result.repository
                   /\ HasCall(g, "cleanup_resources", <<"CleanupError">>) =>
                         /\ g.result.errors =
                               Append(f.result.errors, "Cleanup error")
                         /\ g.result.actions_taken = f.result.actions_taken
                   /\ HasCall(g, "cleanup_resources", <<"ok">>) =>
                         g.result.errors = f.result.errors]_vars
    /\ [](\A i \in DOMAIN futures :
            LET f == futures[i]
            IN  HasCall(f, "cleanup_resources", <<"CleanupError">>) =>
                  /\ Returned(f)
                  /\ f.result.success =
                        HasCall(f, "create_pull_request", PrUrl(f.repo))
                  /\ (mainPc = "exited" /\ exitCode = <<0>>)
                        => \E n \in DOMAIN results : results[n] = f.result)

\* A pull request was created, then the cleanup failed: success stays true.
C13_Witness ==
    \E n \in DOMAIN results :
        /\ results[n].success
        /\ results[n].pr_url # <<None>>
        /\ results[n].errors = <<"Cleanup error">>
        /\ results[n].actions_taken =
              <<"cloned", "workflows_updated", "pr_created">>

-----------------------------------------------------------------------------
(* Backoff schedule of retry_with_backoff *)

\* The wrapped function raises a retried exception on every invocation.
AlwaysFailsTransiently ==
    \A n \in 1..MAX_RETRIES : script[n] \in {"RequestException", "GitHubAPIError"}

\* C14: the wrapped function is invoked at most MAX_RETRIES (5) times; the
\* wait after the k-th failed attempt is RETRY_DELAY * 2^(k-1) seconds
\* (5, 10, 20, 40); no wait follows the last failed attempt; after MAX_RETRIES
\* failures in a row the wrapper raises GitHubAPIError and returns no value.
C14_BoundedExponentialBackoff ==
    /\ invocations <= MAX_RETRIES
    /\ Len(sleeps) <= MAX_RETRIES - 1
    /\ sleeps = SubSeq(<<5, 10, 20, 40>>, 1, Len(sleeps))
    /\ \A k \in DOMAIN sleeps : sleeps[k] = RETRY_DELAY * (2 ^ (k - 1))
    /\ Len(sleeps) = IF rPc = "sleep" THEN invocations
                     ELSE IF rPc = "done" THEN invocations - 1
                     ELSE invocations
    /\ (AlwaysFailsTransiently /\ rPc = "done") =>
          /\ invocations = MAX_RETRIES
          /\ sleeps = <<5, 10, 20, 40>>
          /\ outcome = [kind |-> "raised", value |-> "GitHubAPIError"]

\* Five failures: four waits, then GitHubAPIError.
C14_Witness ==
    /\ AlwaysFailsTransiently
    /\ rPc = "done"
    /\ invocations = MAX_RETRIES
    /\ sleeps = <<5, 10, 20, 40>>
    /\ outcome.kind = "raised"

-----------------------------------------------------------------------------
(* Interruption and exit status *)

\* C15: after the operator's interrupt no pipeline that had not yet started
\* is started; pipelines in flight run to their end; then the run exits
\* non-zero.
C15_InterruptStopsScheduling ==
    /\ [][mainPc = "shutdown" =>
            \A i \in DOMAIN futures :
               futures[i].pc = "queued" => futures'[i].pc = "queued"]_vars
    /\ [][(mainPc = "shutdown" /\ mainPc' = "exited") =>
            /\ Running = {}
            /\ exitCode' = <<1>>]_vars

\* C16: the run exits zero on normal completion, also when some or all
\* repositories failed (a pipeline's failure never ends the run), and exits
\* non-zero on a missing token, on a keyboard interrupt and on an exception
\* that reaches main.
C16_ExitStatus ==
    /\ [](/\ exitCode \in {<<>>, <<0>>, <<1>>}
          /\ mainPc = "exited" <=> exitCode # <<>>)
    /\ [](~token => (exitCode # <<0>> /\ mainPc \in {"import", "exited"}))
    /\ [][(mainPc = "collect" /\ mainPc' = "exited") => exitCode' = <<0>>]_vars
    /\ [][(mainPc = "shutdown" /\ mainPc' = "exited") => exitCode' = <<1>>]_vars
    /\ [][(main_interrupt \/ main_fatal) =>
             /\ mainPc' \in {"shutdown", "exited"}
             /\ mainPc' = "exited" => exitCode' = <<1>>]_vars
    /\ [][(\E i \in DOMAIN futures :
              futures'[i].result # futures[i].result)
             => UNCHANGED <<mainPc, exitCode>>]_vars

\* Every repository failed and the run still exits zero.
C16_Witness ==
    /\ mainPc = "exited"
    /\ exitCode = <<0>>
    /\ Len(results) = MaxRepos
    /\ \A n \in DOMAIN results :
          ~results[n].success /\ results[n].errors # <<>>

-----------------------------------------------------------------------------
(* Properties of the substitution table *)

\* The text holds no v2 tag: every reference is already updated or newer.
OnlyUpdatedReferences(text) == \A n \in DOMAIN text : text[n] # "@v2"

\* C17: applying CODEQL_UPDATES twice gives the same text as applying it
\* once, and a text that holds only updated (@v3) or newer references is left
\* as it is.
C17_SubstitutionIdempotent ==
    /\ \A n \in 2..Len(history) : content = history[n]
    /\ (Len(history) >= 1 /\ OnlyUpdatedReferences(history[1]))
          => content = history[1]

\* A text with an old reference: the first pass rewrites it, the second pass
\* changes nothing.
C17_Witness ==
    /\ Len(history) = 2
    /\ history[1] = <<Action, "/analyze", "@v2", "other">>
    /\ history[2] = <<Action, "/analyze", "@v3", "other">>
    /\ content = history[2]

-----------------------------------------------------------------------------
(* The shared results list *)

\* C18: results changes only by the controlling thread appending the record
\* of a finished future; a worker's step changes the record of its own
\* pipeline only; a record that has been returned is never changed again,
\* neither in its future nor in results.
C18_ResultsOwnedByMain ==
    [][/\ results' # results =>
            /\ mainPc = "collect"
            /\ \E i \in DOMAIN futures :
                  /\ futures[i].pc = "finished"
                  /\ futures' = [futures EXCEPT ![i].pc = "yielded"]
                  /\ results' = Append(results, futures[i].result)
       /\ Len(results') >= Len(results)
       /\ \A n \in DOMAIN results : results'[n] = results[n]
       /\ \A i \in DOMAIN futures :
             Returned(futures[i]) => futures'[i].result = futures[i].result
       /\ \A i, j \in DOMAIN futures :
             (/\ futures'[i].result # futures[i].result
              /\ futures'[j].result # futures[j].result) => i = j]_vars

\* One record is collected while another pipeline is still at work.
C18_Witness ==
    /\ Len(results) >= 1
    /\ \E j \in DOMAIN futures :
          /\ futures[j].pc \in ActivePcs
          /\ futures[j].result.actions_taken # <<>>

-----------------------------------------------------------------------------
(* What an outcome record says *)

InList(seq, x) == \E n \in DOMAIN seq : seq[n] = x

\* success <=> dry_run or pr_created was taken; pr_url set <=> pr_created.
RecordConsistent(r) ==
    /\ r.success <=> (\/ InList(r.actions_taken, "dry_run")
                      \/ InList(r.actions_taken, "pr_created"))
    /\ r.pr_url # <<None>> <=> InList(r.actions_taken, "pr_created")

FailedCount(rs) == Cardinality({ n \in DOMAIN rs : ~rs[n].success })

\* C19: every returned outcome record has success true exactly when its
\* actions contain dry_run or pr_created, and a pull request URL exactly when
\* they contain pr_created; a repository that needed no update, or whose
\* prompt was declined, is returned with success false, and the report counts
\* every such record as a failed migration, with or without errors.
C19_SuccessMeansDryRunOrPr ==
    /\ \A i \in DOMAIN futures :
          LET f == futures[i]
          IN  Returned(f) =>
                /\ RecordConsistent(f.result)
                /\ (\/ InList(f.result.actions_taken, "no_updates_needed")
                    \/ Declined(f)) => ~f.result.success
    /\ \A n \in DOMAIN results : RecordConsistent(results[n])
    /\ report # <<>> =>
          /\ report[1].failed_migrations = FailedCount(results)
          /\ report[1].successful_migrations
                = Len(results) - FailedCount(results)

\* The report counts as failed a repository that needed no update and one
\* whose prompt was declined, both with an empty errors list, next to none
\* that succeeded.
C19_Witness ==
    /\ report # <<>>
    /\ report[1].failed_migrations = 2
    /\ \E i, j \in DOMAIN futures :
          /\ futures[i].pc = "yielded"
          /\ futures[j].pc = "yielded"
          /\ InList(futures[i].result.actions_taken, "no_updates_needed")
          /\ futures[i].result.errors = <<>>
          /\ Declined(futures[j])
          /\ futures[j].result.errors = <<>>
          /\ ~futures[i].result.success
          /\ ~futures[j].result.success

-----------------------------------------------------------------------------
(* Confirmation prompts *)

\* The pipelines waiting in prompt_user("Create PR for ...?").
Prompting == { i \in DOMAIN futures : futures[i].pc = "prompt" }

\* No pipeline runs, and so none prompts, before the global prompt is
\* answered.
NoPipelineBeforeGlobalAnswer ==
    mainPc = "prompt" => futures = <<>>

\* C20: at most one confirmation prompt is outstanding at any time: no two
\* workers wait in the per-repository prompt together, and none waits while
\* the global prompt is outstanding.
C20_OnePromptAtATime ==
    /\ NoPipelineBeforeGlobalAnswer
    /\ Cardinality(Prompting) + (IF mainPc = "prompt" THEN 1 ELSE 0) <= 1

====
